---- MODULE Spec2Model ----
(***************************************************************************)
(* Skill-folder resolution and recursive retrieval engine of               *)
(* mcp-skills-as-context: the credential rotator, findSkillFolder,         *)
(* fetchFolderContents, fetchFileContent, collectFiles, fetchSkillDetails  *)
(* and the get-skill-details handler, in both transport entry points       *)
(* (index.ts: "http", src/stdio.mjs: "stdio").                             *)
(*                                                                         *)
(* A JavaScript string is a sequence of one-character strings.  null is    *)
(* the one-element sequence NULL, which no string equals.  A message that  *)
(* the code builds from a template is the concatenation of its parts.      *)
(***************************************************************************)
EXTENDS Integers, Sequences, FiniteSets, TLC

VARIABLES
    variant,      \* which entry point runs: "http" (index.ts) or "stdio" (stdio.mjs)
    githubTokens, \* the credential pool, fixed at module load
    tokenIndex,   \* the rotation cursor
    authLog,      \* the Authorization value of the headers of every getGitHubHeaders call, in call order
    skill_ids,    \* the batch handed to the get-skill-details handler
    hpc,          \* position of the handler
    tasks,        \* one fetchSkillDetails orchestration per identifier
    completed,    \* index.ts: the handler's completed counter
    progress,     \* index.ts: the completed values passed to ctx.reportProgress, in call order
    response,     \* what the handler returned
    rTree,        \* resolver check: the tree listing handed to findSkillFolder
    rSkillId,     \* resolver check: the skill identifier
    rOut          \* resolver check: the FolderMatch returned (rOut.done)

vars == <<variant, githubTokens, tokenIndex, authLog, skill_ids, hpc, tasks,
          completed, progress, response, rTree, rSkillId, rOut>>

orchVars == <<githubTokens, tokenIndex, authLog, skill_ids, hpc, tasks,
              completed, progress, response>>

----------------------------------------------------------------------------
(* Bounds of the model *)

\* longest batch of identifiers handed to the handler
MaxBatch == 2
\* largest credential pool
MaxTokens == 2
\* longest tree listing enumerated for the resolver
MaxTree == 3

----------------------------------------------------------------------------
(* Strings *)

NULL == <<"null">>

Max(a, b) == IF a >= b THEN a ELSE b

\* s.endsWith(suf)
EndsWith(s, suf) ==
    /\ Len(suf) <= Len(s)
    /\ \A k \in 1..Len(suf) : s[Len(s) - Len(suf) + k] = suf[k]

\* a.includes(b): b is a contiguous substring of a (the empty string is one of every string)
Includes(a, b) ==
    \E off \in 0..(Len(a) - Len(b)) :
        \A k \in 1..Len(b) : a[off + k] = b[k]

\* s.lastIndexOf(ch), 0-based, -1 when absent
LastIndexOf(s, ch) ==
    LET hits == {k \in 1..Len(s) : s[k] = ch}
    IN  IF hits = {} THEN -1
        ELSE (CHOOSE k \in hits : \A j \in hits : j <= k) - 1

\* s.substring(0, n)
Substring0(s, n) == SubSeq(s, 1, n)

RECURSIVE SplitFrom(_, _, _, _)
SplitFrom(s, sep, k, cur) ==
    IF k > Len(s) THEN <<cur>>
    ELSE IF s[k] = sep THEN <<cur>> \o SplitFrom(s, sep, k + 1, <<>>)
    ELSE SplitFrom(s, sep, k + 1, Append(cur, s[k]))

\* s.split(sep) for a one-character separator: "".split("/") is [""]
Split(s, sep) == SplitFrom(s, sep, 1, <<>>)

RECURSIVE Join(_, _)
\* parts.join(sep)
Join(parts, sep) ==
    IF Len(parts) = 0 THEN <<>>
    ELSE IF Len(parts) = 1 THEN parts[1]
    ELSE parts[1] \o <<sep>> \o Join(Tail(parts), sep)

\* parts.slice(n)
Slice(parts, n) == SubSeq(parts, n + 1, Len(parts))

\* the letters the 'i' flag of the manifest pattern folds
LowerChar(c) ==
    CASE c = "S" -> "s"
      [] c = "K" -> "k"
      [] c = "I" -> "i"
      [] c = "L" -> "l"
      [] c = "M" -> "m"
      [] c = "D" -> "d"
      [] OTHER -> c

LowerCase(s) == [k \in 1..Len(s) |-> LowerChar(s[k])]

\* array.filter(pred) on a sequence
RECURSIVE SelectIdx(_, _, _)
SelectIdx(s, keep, k) ==
    IF k > Len(s) THEN <<>>
    ELSE (IF k \in keep THEN <<s[k]>> ELSE <<>>) \o SelectIdx(s, keep, k + 1)

Range(s) == {s[k] : k \in 1..Len(s)}

RECURSIVE Digits(_)
\* String(n) for n >= 0
Digits(n) ==
    LET d == <<"0", "1", "2", "3", "4", "5", "6", "7", "8", "9">>
    IN  IF n < 10 THEN <<d[n + 1]>> ELSE Digits(n \div 10) \o <<d[(n % 10) + 1]>>

----------------------------------------------------------------------------
(* Messages *)

ErrInvalidId(id) ==
    <<"Invalid skill ID format. Expected \"owner/repo/skillId\", got \"">> \o id \o <<"\"">>
ErrRateLimit == <<"GitHub rate limit exceeded">>
ErrTreesStatus(status) == <<"GitHub Trees API returned ">> \o Digits(status)
ErrNotFoundInRepo == <<"Skill folder not found in repository">>
ErrNotFound == <<"Skill folder not found">>
ErrNoManifest == <<"No SKILL.md files found in repository">>
ErrNoContents == <<"Could not fetch folder contents from GitHub">>
ErrFetchFailed == <<"fetch failed">>
ErrBadJson == <<"Unexpected token in JSON">>
ErrBelow(folderName, pct) ==
    <<"No matching skill folder found (best match: ">> \o folderName
        \o <<" at ">> \o pct \o <<"%)">>

\* body.message ?? "GitHub rate limit exceeded"
MessageOrDefault(message) == IF message = NULL THEN ErrRateLimit ELSE message

----------------------------------------------------------------------------
(* Credential rotator *)

\* the Authorization header of a call that found the pool empty
NoAuth == <<"none">>

Bearer(token) == <<"Bearer ">> \o token

\* getGitHubHeaders without its tokenIndex++: the cursor is read and not advanced
getGitHubHeadersStuck(tokens, idx) ==
    IF Len(tokens) > 0
    THEN [auth |-> Bearer(tokens[(idx % Len(tokens)) + 1]), tokenIndex |-> idx]
    ELSE [auth |-> NoAuth, tokenIndex |-> idx]

\* getGitHubHeaders(): the headers returned and the cursor afterwards
getGitHubHeaders(tokens, idx) ==
    IF Len(tokens) > 0
    THEN [auth |-> Bearer(tokens[(idx % Len(tokens)) + 1]), tokenIndex |-> idx + 1]
    ELSE [auth |-> NoAuth, tokenIndex |-> idx]

----------------------------------------------------------------------------
(* Folder resolver *)

RECURSIVE ReduceShortest(_, _, _)
ReduceShortest(acc, cands, k) ==
    IF k > Len(cands) THEN acc
    ELSE ReduceShortest(IF Len(acc) <= Len(cands[k]) THEN acc ELSE cands[k], cands, k + 1)

RECURSIVE ReduceLongest(_, _, _)
ReduceLongest(acc, cands, k) ==
    IF k > Len(cands) THEN acc
    ELSE ReduceLongest(IF Len(acc) >= Len(cands[k]) THEN acc ELSE cands[k], cands, k + 1)

\* the reduce with its comparison inverted: the longest candidate
LongestPath(cands) == ReduceLongest(cands[1], cands, 2)

RECURSIVE ReduceShortestLast(_, _, _)
ReduceShortestLast(acc, cands, k) ==
    IF k > Len(cands) THEN acc
    ELSE ReduceShortestLast(IF Len(acc) < Len(cands[k]) THEN acc ELSE cands[k], cands, k + 1)

\* the reduce with a strict comparison: of equally short candidates the last
LastShortestPath(cands) == ReduceShortestLast(cands[1], cands, 2)

\* candidates.reduce((a, b) => (a.length <= b.length ? a : b))
ShortestPath(cands) == ReduceShortest(cands[1], cands, 2)

\* tier 1: entries of type tree whose last path component(s) equal skillId
ExactCandidates(tree, skillId) ==
    LET keep == {k \in 1..Len(tree) :
                    /\ tree[k].type = "tree"
                    /\ \/ tree[k].path = skillId
                       \/ EndsWith(tree[k].path, <<"/">> \o skillId)}
        hit == SelectIdx(tree, keep, 1)
    IN  [k \in 1..Len(hit) |-> hit[k].path]

\* /SKILL\.md$/i.test(path)
MatchesManifest(path) ==
    EndsWith(LowerCase(path), <<"s", "k", "i", "l", "l", ".", "m", "d">>)

\* tier 2: the blobs the manifest pattern matches
SkillMdEntries(tree) ==
    SelectIdx(tree, {k \in 1..Len(tree) :
                        tree[k].type = "blob" /\ MatchesManifest(tree[k].path)}, 1)

\* the parent folder of a manifest ("" when it is at the root)
ParentFolder(path) ==
    LET lastSlash == LastIndexOf(path, "/")
    IN  IF lastSlash = -1 THEN <<>> ELSE Substring0(path, lastSlash)

\* new Set(s.split("-").filter(Boolean))
Tokens(s) == {t \in Range(Split(s, "-")) : Len(t) > 0}

\* folderPath.split("/").pop() || ""
FolderName(folderPath) ==
    LET parts == Split(folderPath, "/") IN parts[Len(parts)]

\* a score is num/den, or NaN (0/0, which no arithmetic brings back to a number)
Threshold == [nan |-> FALSE, num |-> 3, den |-> 10]

\* a >= b on scores: false when either is NaN
ScoreGE(a, b) == ~a.nan /\ ~b.nan /\ a.num * b.den >= b.num * a.den

\* commonTokens.size / Math.max(folderTokens.size, skillIdTokens.size)
BaseScore(folderTokens, skillIdTokens) ==
    LET common == Cardinality(folderTokens \cap skillIdTokens)
        most == Max(Cardinality(folderTokens), Cardinality(skillIdTokens))
    IN  IF most = 0 THEN [nan |-> TRUE, num |-> 0, den |-> 1]
        ELSE [nan |-> FALSE, num |-> common, den |-> most]

\* Math.min(score + 0.5, 1.0)
WithBonus(score) ==
    IF score.nan THEN score
    ELSE IF 2 * score.num + score.den >= 2 * score.den
         THEN [nan |-> FALSE, num |-> 1, den |-> 1]
         ELSE [nan |-> FALSE, num |-> 2 * score.num + score.den, den |-> 2 * score.den]

\* the candidate scored with a bonus only for a non-empty substring
CandidateStrict(folderPath, skillId) ==
    LET folderName == FolderName(folderPath)
        base == BaseScore(Tokens(folderName), Tokens(skillId))
        score == IF /\ Len(folderName) > 0
                    /\ Len(skillId) > 0
                    /\ (Includes(skillId, folderName) \/ Includes(folderName, skillId))
                 THEN WithBonus(base) ELSE base
    IN  [folderPath |-> folderPath, folderName |-> folderName, score |-> score]

\* one element of the candidates array of tier 4
Candidate(folderPath, skillId) ==
    LET folderName == FolderName(folderPath)
        base == BaseScore(Tokens(folderName), Tokens(skillId))
        score == IF Includes(skillId, folderName) \/ Includes(folderName, skillId)
                 THEN WithBonus(base) ELSE base
    IN  [folderPath |-> folderPath, folderName |-> folderName, score |-> score]

\* (a, b) => b.score - a.score is 0, or NaN, which sort takes for 0
SameRank(a, b) == a.nan \/ b.nan \/ (ScoreGE(a, b) /\ ScoreGE(b, a))

\* candidates.sort((a, b) => b.score - a.score)[0]: the sort is stable, so the
\* first of the candidates of maximal score.  A NaN score compares equal to
\* every score: unless all scores then compare equal, the comparator is not
\* consistent and the order is implementation-defined
BestIndices(cands) ==
    LET all == 1..Len(cands)
    IN  IF \E k \in all : cands[k].score.nan
        THEN IF \A j \in all : \A k \in all : SameRank(cands[j].score, cands[k].score)
             THEN {1}
             ELSE all
        ELSE {k \in all :
                /\ \A j \in all : ScoreGE(cands[k].score, cands[j].score)
                /\ \A j \in 1..(k - 1) : ~ScoreGE(cands[j].score, cands[k].score)}

\* `${Math.round(best.score * 100)}`
Percent(score) ==
    IF score.nan THEN <<"N", "a", "N">>
    ELSE Digits((200 * score.num + score.den) \div (2 * score.den))

Match(folderPath, error, tier) ==
    [folderPath |-> folderPath, error |-> error, tier |-> tier]

\* tier 4 without its threshold: the best candidate is returned whatever it scores
FuzzyMatchAny(best) == Match(best.folderPath, NULL, 4)

\* tier 4 of stdio.mjs: the FolderMatch for one choice of best
FuzzyMatch(best) ==
    IF ScoreGE(best.score, Threshold)
    THEN Match(best.folderPath, NULL, 4)
    ELSE Match(NULL, ErrBelow(best.folderName, Percent(best.score)), 4)

\* index.ts: the part of findSkillFolder after the tree is read
ResolveHttp(tree, skillId) ==
    LET candidates == ExactCandidates(tree, skillId)
    IN  IF Len(candidates) = 0
        THEN {Match(NULL, ErrNotFoundInRepo, 1)}
        ELSE {Match(ShortestPath(candidates), NULL, 1)}

\* stdio.mjs: the part of findSkillFolder after the tree is read
ResolveStdio(tree, skillId) ==
    LET exactCandidates == ExactCandidates(tree, skillId)
        skillMdEntries == SkillMdEntries(tree)
        skillFolders == [k \in 1..Len(skillMdEntries) |-> ParentFolder(skillMdEntries[k].path)]
        candidates == [k \in 1..Len(skillFolders) |-> Candidate(skillFolders[k], skillId)]
    IN  IF Len(exactCandidates) > 0
        THEN {Match(ShortestPath(exactCandidates), NULL, 1)}
        ELSE IF Len(skillMdEntries) = 0
        THEN {Match(NULL, ErrNoManifest, 2)}
        ELSE IF Len(skillFolders) = 1
        THEN {Match(skillFolders[1], NULL, 3)}
        ELSE {FuzzyMatch(candidates[k]) : k \in BestIndices(candidates)}

\* the FolderMatch values the resolution of a tree can produce (one, unless a
\* score is NaN)
ResolveTree(v, tree, skillId) ==
    IF v = "http" THEN ResolveHttp(tree, skillId) ELSE ResolveStdio(tree, skillId)

----------------------------------------------------------------------------
(* The resolver as a function of the tree listing: inputs for its check *)

s_pdf == <<"p", "d", "f">>
s_x == <<"x">>
s_x_pdf == <<"x", "/", "p", "d", "f">>
s_SKILL_md == <<"S", "K", "I", "L", "L", ".", "m", "d">>
s_x_SKILL_md == <<"x", "/", "S", "K", "I", "L", "L", ".", "m", "d">>
s_y_skill_md == <<"y", "/", "s", "k", "i", "l", "l", ".", "m", "d">>
s_z_myskill_md == <<"z", "/", "m", "y", "s", "k", "i", "l", "l", ".", "m", "d">>
s_x_a_md == <<"x", "/", "a", ".", "m", "d">>

s_y_pdf == <<"y", "/", "p", "d", "f">>
s_y_SKILL_md == <<"y", "/", "S", "K", "I", "L", "L", ".", "m", "d">>
s_weather == <<"w", "e", "a", "t", "h", "e", "r">>
s_a_b == <<"a", "-", "b">>
s_weather_SKILL_md == <<"w", "e", "a", "t", "h", "e", "r", "/", "S", "K", "I", "L", "L", ".", "m", "d">>
s_widgets_SKILL_md == <<"w", "e", "a", "t", "h", "e", "r", "-", "w", "i", "d", "g", "e", "t", "s", "/", "S", "K", "I", "L", "L", ".", "m", "d">>
s_bcd_SKILL_md == <<"b", "-", "c", "-", "d", "/", "S", "K", "I", "L", "L", ".", "m", "d">>
s_bcde_SKILL_md == <<"b", "-", "c", "-", "d", "-", "e", "/", "S", "K", "I", "L", "L", ".", "m", "d">>
s_q_SKILL_md == <<"q", "/", "S", "K", "I", "L", "L", ".", "m", "d">>

Entry(path, type) == [path |-> path, type |-> type]

\* the tree entries the enumerated listings are made of
EntryPool ==
    { Entry(s_pdf, "tree"), Entry(s_x_pdf, "tree"), Entry(s_y_pdf, "tree"),
      Entry(s_x, "tree"),
      Entry(s_SKILL_md, "blob"), Entry(s_x_SKILL_md, "blob"),
      Entry(s_y_SKILL_md, "blob"), Entry(s_y_skill_md, "blob"),
      Entry(s_z_myskill_md, "blob"), Entry(s_x_a_md, "blob") }

\* the skill identifiers resolved against them
SkillIdPool == { s_pdf, s_x, <<>> }

\* repositories without a directory named after the skill: manifests only
ManifestPool ==
    { Entry(s_weather_SKILL_md, "blob"), Entry(s_widgets_SKILL_md, "blob"),
      Entry(s_bcd_SKILL_md, "blob"), Entry(s_bcde_SKILL_md, "blob"),
      Entry(s_q_SKILL_md, "blob"), Entry(s_SKILL_md, "blob") }

\* the skill identifiers resolved against the manifest-only repositories
ManifestIdPool == { s_weather, s_a_b, <<>> }

\* every listing of at most MaxTree entries of a pool; a tree listing names a
\* path once
Listings(pool) ==
    UNION {{ l \in [1..n -> pool] :
               \A j, k \in 1..n : l[j] = l[k] => j = k } : n \in 0..MaxTree}

TreeListings == Listings(EntryPool)

ManifestListings == Listings(ManifestPool)

NoMatch == [done |-> FALSE, folderPath |-> NULL, error |-> NULL, tier |-> 0]

----------------------------------------------------------------------------
(* The remote side: repositories, their tree listings and their folders *)

id_e2e == <<"a", "c", "m", "e", "/", "s", "k", "i", "l", "l", "s", "-", "r", "e", "p", "o", "/", "c", "o", "d", "e", "-", "r", "e", "v", "i", "e", "w">>
id_pdf == <<"o", "/", "r", "/", "p", "d", "f">>
id_x == <<"o", "/", "s", "/", "x">>
id_two == <<"o", "/", "s">>
id_one == <<"p", "d", "f">>
id_ab == <<"o", "/", "f", "/", "a", "-", "b">>
id_four == <<"o", "/", "s", "/", "x", "/", "y">>
repo_acme == <<"a", "c", "m", "e", "/", "s", "k", "i", "l", "l", "s", "-", "r", "e", "p", "o">>
repo_r == <<"o", "/", "r">>
repo_s == <<"o", "/", "s">>
repo_f == <<"o", "/", "f">>
s_bcd == <<"b", "-", "c", "-", "d">>
p_cr == <<"t", "o", "o", "l", "s", "/", "c", "o", "d", "e", "-", "r", "e", "v", "i", "e", "w">>
p_cr_SKILL == <<"t", "o", "o", "l", "s", "/", "c", "o", "d", "e", "-", "r", "e", "v", "i", "e", "w", "/", "S", "K", "I", "L", "L", ".", "m", "d">>
p_cr_checklist == <<"t", "o", "o", "l", "s", "/", "c", "o", "d", "e", "-", "r", "e", "v", "i", "e", "w", "/", "c", "h", "e", "c", "k", "l", "i", "s", "t", ".", "m", "d">>
n_SKILL == <<"S", "K", "I", "L", "L", ".", "m", "d">>
n_checklist == <<"c", "h", "e", "c", "k", "l", "i", "s", "t", ".", "m", "d">>
p_x_SKILL == <<"x", "/", "S", "K", "I", "L", "L", ".", "m", "d">>
p_x_y == <<"x", "/", "y">>
p_pdf_SKILL == <<"p", "d", "f", "/", "S", "K", "I", "L", "L", ".", "m", "d">>
p_pdf_notes == <<"p", "d", "f", "/", "n", "o", "t", "e", "s", ".", "m", "d">>
n_notes == <<"n", "o", "t", "e", "s", ".", "m", "d">>
p_pdf_LICENSE == <<"p", "d", "f", "/", "L", "I", "C", "E", "N", "S", "E">>
n_LICENSE == <<"L", "I", "C", "E", "N", "S", "E">>
p_pdf_refs == <<"p", "d", "f", "/", "r", "e", "f", "s">>
n_refs == <<"r", "e", "f", "s">>
p_pdf_bin == <<"p", "d", "f", "/", "b", "i", "n">>
n_bin == <<"b", "i", "n">>
p_pdf_refs_a == <<"p", "d", "f", "/", "r", "e", "f", "s", "/", "a", ".", "m", "d">>
n_a == <<"a", ".", "m", "d">>
p_pdf_refs_deep == <<"p", "d", "f", "/", "r", "e", "f", "s", "/", "d", "e", "e", "p">>
n_deep == <<"d", "e", "e", "p">>
p_pdf_refs_deep_b == <<"p", "d", "f", "/", "r", "e", "f", "s", "/", "d", "e", "e", "p", "/", "b", ".", "m", "d">>
n_b == <<"b", ".", "m", "d">>
p_pdf_bin_run == <<"p", "d", "f", "/", "b", "i", "n", "/", "r", "u", "n">>
n_run == <<"r", "u", "n">>
p_pdf_bin_link == <<"p", "d", "f", "/", "b", "i", "n", "/", "l", "i", "n", "k">>
n_link == <<"l", "i", "n", "k">>
n_ghost == <<"g", "h", "o", "s", "t">>

Item(type, path, name, url) ==
    [type |-> type, path |-> path, name |-> name, download_url |-> url]

File(path, name) == Item("file", path, name, path)

\* the tree listings the Trees API may answer for a repository
RepoTrees(source) ==
    CASE source = repo_acme ->
            { <<Entry(p_cr_SKILL, "blob"), Entry(p_cr_checklist, "blob")>> }
      [] source = repo_s ->
            { <<Entry(s_x, "tree"), Entry(p_x_y, "tree")>> }
      [] source = repo_r ->
            { <<Entry(s_pdf, "tree")>>,
              <<Entry(s_SKILL_md, "blob")>>,
              <<Entry(s_SKILL_md, "blob"), Entry(s_x_SKILL_md, "blob")>>,
              <<Entry(s_y_skill_md, "blob"), Entry(s_z_myskill_md, "blob")>>,
              <<>> }
      [] source = repo_f -> ManifestListings
      [] OTHER -> { <<>> }

\* the folders of a repository that the Contents API can list
RepoFolders(source) ==
    CASE source = repo_acme -> { p_cr }
      [] source = repo_s -> { s_x, p_x_y }
      [] source = repo_r -> { <<>>, s_pdf, p_pdf_refs, p_pdf_refs_deep, p_pdf_bin }
      [] source = repo_f -> { s_bcd }
      [] OTHER -> {}

\* the listing of a folder
FolderItems(source, path) ==
    CASE source = repo_acme /\ path = p_cr ->
            << File(p_cr_SKILL, n_SKILL), File(p_cr_checklist, n_checklist) >>
      [] source = repo_s /\ path = s_x ->
            << File(p_x_SKILL, n_SKILL) >>
      [] source = repo_s /\ path = p_x_y ->
            << >>
      [] source = repo_f /\ path = s_bcd ->
            << File(s_bcd_SKILL_md, n_SKILL) >>
      [] source = repo_r /\ path = <<>> ->
            << File(s_SKILL_md, n_SKILL), Item("dir", s_pdf, s_pdf, NULL) >>
      [] source = repo_r /\ path = s_pdf ->
            << File(p_pdf_SKILL, n_SKILL),
               Item("file", p_pdf_LICENSE, n_LICENSE, NULL),
               File(p_pdf_notes, n_notes),
               Item("dir", p_pdf_refs, n_refs, NULL),
               Item("dir", NULL, n_ghost, NULL),
               Item("dir", p_pdf_bin, n_bin, NULL) >>
      [] source = repo_r /\ path = p_pdf_refs ->
            << File(p_pdf_refs_a, n_a), Item("dir", p_pdf_refs_deep, n_deep, NULL) >>
      [] source = repo_r /\ path = p_pdf_refs_deep ->
            << File(p_pdf_refs_deep_b, n_b) >>
      [] source = repo_r /\ path = p_pdf_bin ->
            << File(p_pdf_bin_run, n_run),
               Item("symlink", p_pdf_bin_link, n_link, p_pdf_bin_link) >>
      [] OTHER -> <<>>

\* the text a download of url answers
Content(url) == <<"content of ">> \o url

RateLimitBody == <<"API rate limit exceeded for 203.0.113.7">>

\* a response of the Trees API: the fetch fails ("network"), or answers with a
\* status and a body that parses or does not ("body")
TreeResp(fail, status, message, tree) ==
    [fail |-> fail, status |-> status, message |-> message, tree |-> tree]

TreeResponses(source) ==
    { TreeResp("none", 200, NULL, t) : t \in RepoTrees(source) }
        \cup { TreeResp("none", 403, RateLimitBody, <<>>),
               TreeResp("body", 403, NULL, <<>>),
               TreeResp("none", 404, NULL, <<>>),
               TreeResp("body", 200, NULL, <<>>),
               TreeResp("network", 0, NULL, <<>>) }

\* a response of the Contents API; array is FALSE when the body is not an array
ListResp(fail, status, message, array, items) ==
    [fail |-> fail, status |-> status, message |-> message, array |-> array, items |-> items]

ListResponses(source, path) ==
    (IF path \in RepoFolders(source)
     THEN { ListResp("none", 200, NULL, TRUE, FolderItems(source, path)) }
     ELSE {})
        \cup { ListResp("none", 200, NULL, FALSE, <<>>),
               ListResp("none", 403, RateLimitBody, FALSE, <<>>),
               ListResp("body", 403, NULL, FALSE, <<>>),
               ListResp("none", 404, NULL, FALSE, <<>>),
               ListResp("network", 0, NULL, FALSE, <<>>) }

\* how a download ends: "ok", a non-success status, or a network error
DownloadOutcomes == { "ok", "status", "network" }

----------------------------------------------------------------------------
(* Tasks *)

\* a JavaScript value used as a condition: null and "" are falsy
Truthy(v) == v # NULL /\ Len(v) > 0

\* v ?? ""
OrEmpty(v) == IF v = NULL THEN <<>> ELSE v

Result(id, files, error) == [id |-> id, files |-> files, error |-> error]

\* a fetchSkillDetails call that has not started.  net, tier, dls, events,
\* sub403, lost, treeAns, match, subs and order record what happened, and the
\* code reads none of them:
\*   net      requests issued (tree, list, dl), getGitHubHeaders calls (hdr)
\*            and contents requests answered (ans)
\*   tier     the tier of findSkillFolder that decided
\*   dls      every file entry seen, with how its download ended
\*   events   the responses that were not a success
\*   sub403   the body message (NULL when it has none) of each 403 that answered
\*            the listing of a subdirectory
\*   lost     the records collected when the collection was aborted
\*   treeAns  the response of the Trees API, once it has answered
\*   match    the FolderMatch findSkillFolder returned, once it has
\*   subs     every subdirectory whose listing was answered without a throw,
\*            with "null" or "items" for what fetchFolderContents returned
\*   order    the paths of the downloads, in the order in which they settled
NewTask(id) ==
    [ pc |-> "new", id |-> id, source |-> <<>>, skillName |-> <<>>,
      listing |-> NULL, stack |-> <<>>,
      result |-> Result(id, <<>>, NULL), thrown |-> NULL,
      net |-> [tree |-> 0, list |-> 0, dl |-> 0, hdr |-> 0, ans |-> 0],
      tier |-> 0, dls |-> {}, events |-> {}, sub403 |-> <<>>, lost |-> 0,
      treeAns |-> <<>>, match |-> <<>>, subs |-> {}, order |-> <<>> ]

\* the state a continuation runs on: the tasks and the module-level variables
Ctx == [ tasks |-> tasks, idx |-> tokenIndex, log |-> authLog,
         completed |-> completed, progress |-> progress ]

\* headers: getGitHubHeaders() at a call site of task i
CallHeaders(g, i) ==
    LET h == getGitHubHeaders(githubTokens, g.idx)
    IN  [g EXCEPT !.idx = h.tokenIndex,
                  !.log = Append(@, h.auth),
                  !.tasks[i].net.hdr = @ + 1]

\* the wrapper reporting the count before it increments it
ReturnStale(g, i, files, error) ==
    LET r == Result(g.tasks[i].id, files, error)
    IN  IF variant = "http"
        THEN [g EXCEPT !.tasks[i].pc = "report",
                       !.tasks[i].result = r,
                       !.tasks[i].stack = <<>>,
                       !.completed = @ + 1,
                       !.progress = Append(@, g.completed)]
        ELSE [g EXCEPT !.tasks[i].pc = "done",
                       !.tasks[i].result = r,
                       !.tasks[i].stack = <<>>]

\* fetchSkillDetails returns a result; in index.ts the wrapper of the handler
\* then counts it and reports progress (index.ts 341-347)
Return(g, i, files, error) ==
    LET r == Result(g.tasks[i].id, files, error)
    IN  IF variant = "http"
        THEN [g EXCEPT !.tasks[i].pc = "report",
                       !.tasks[i].result = r,
                       !.tasks[i].stack = <<>>,
                       !.completed = @ + 1,
                       !.progress = Append(@, g.completed + 1)]
        ELSE [g EXCEPT !.tasks[i].pc = "done",
                       !.tasks[i].result = r,
                       !.tasks[i].stack = <<>>]

\* an exception leaves fetchSkillDetails: its promise is rejected
Throw(g, i, message) ==
    [g EXCEPT !.tasks[i].pc = "thrown",
              !.tasks[i].thrown = message,
              !.tasks[i].stack = <<>>]

\* findSkillFolder sharing the tree request of an earlier identifier of the
\* same repository instead of issuing its own
CallFindSkillFolderShared(g, i) ==
    IF \E j \in 1..(i - 1) : /\ g.tasks[j].source = g.tasks[i].source
                              /\ g.tasks[j].net.tree >= 1
    THEN [g EXCEPT !.tasks[i].pc = "tree"]
    ELSE LET g1 == CallHeaders(g, i)
         IN  [g1 EXCEPT !.tasks[i].pc = "tree", !.tasks[i].net.tree = @ + 1]

\* findSkillFolder up to its await: the tree request is issued
CallFindSkillFolder(g, i) ==
    LET g1 == CallHeaders(g, i)
    IN  [g1 EXCEPT !.tasks[i].pc = "tree", !.tasks[i].net.tree = @ + 1]

\* fetchFolderContents up to its await: the contents request is issued
CallFetchFolderContents(g, i, path, pc) ==
    LET g1 == CallHeaders(g, i)
    IN  [g1 EXCEPT !.tasks[i].pc = pc,
                   !.tasks[i].listing = path,
                   !.tasks[i].net.list = @ + 1]

\* the test with the wrong count: two segments are accepted
MalformedLoose(parts) == Len(parts) < 2

\* parts.length < 3
Malformed(parts) == Len(parts) < 3

\* fetchSkillDetails up to its first await
StartSkill(g, i) ==
    LET skillId == g.tasks[i].id
        parts == Split(skillId, "/")
    IN  IF Malformed(parts)
        THEN Return(g, i, <<>>, ErrInvalidId(skillId))
        ELSE CallFindSkillFolder(
                [g EXCEPT !.tasks[i].source = parts[1] \o <<"/">> \o parts[2],
                          !.tasks[i].skillName = Join(Slice(parts, 2), "/")], i)

\* findSkillFolder after its await: what it throws or returns
Thrown(message) == [thrown |-> TRUE, message |-> message, match |-> Match(NULL, NULL, 0)]
Returned(match) == [thrown |-> FALSE, message |-> NULL, match |-> match]

\* findSkillFolder raising on a 403 the way fetchFolderContents does
findSkillFolderRaises(v, resp, skillId) ==
    IF resp.fail = "network" THEN { Thrown(ErrFetchFailed) }
    ELSE IF resp.status = 403
    THEN { Thrown(MessageOrDefault(IF resp.fail = "body" THEN NULL ELSE resp.message)) }
    ELSE IF ~(resp.status \in 200..299)
    THEN { Returned(Match(NULL, ErrTreesStatus(resp.status), 0)) }
    ELSE IF resp.fail = "body" THEN { Thrown(ErrBadJson) }
    ELSE { Returned(m) : m \in ResolveTree(v, resp.tree, skillId) }

\* findSkillFolder from the answer of the Trees API on
findSkillFolder(v, resp, skillId) ==
    IF resp.fail = "network" THEN { Thrown(ErrFetchFailed) }
    ELSE IF resp.status = 403
    THEN { Returned(Match(NULL,
              MessageOrDefault(IF resp.fail = "body" THEN NULL ELSE resp.message), 0)) }
    ELSE IF ~(resp.status \in 200..299)
    THEN { Returned(Match(NULL, ErrTreesStatus(resp.status), 0)) }
    ELSE IF resp.fail = "body" THEN { Thrown(ErrBadJson) }
    ELSE { Returned(m) : m \in ResolveTree(v, resp.tree, skillId) }

\* the test of the FolderMatch by truthiness alone: "" fails like null
FindFailedFalsy(v, m) == Truthy(m.error) \/ ~Truthy(m.folderPath)

\* the test fetchSkillDetails makes of the FolderMatch
FindFailed(v, m) ==
    IF v = "http"
    THEN Truthy(m.error) \/ ~Truthy(m.folderPath)
    ELSE Truthy(m.error) \/ m.folderPath = NULL

\* fetchFolderContents after its await: what it throws or returns (items NULL or an array)
ContentsThrown(message) == [thrown |-> TRUE, message |-> message, null |-> TRUE, items |-> <<>>]
ContentsNull == [thrown |-> FALSE, message |-> NULL, null |-> TRUE, items |-> <<>>]
ContentsItems(items) == [thrown |-> FALSE, message |-> NULL, null |-> FALSE, items |-> items]

\* fetchFolderContents without its 403 branch: a 403 is swallowed like any other status
fetchFolderContentsSwallow(resp) ==
    IF resp.fail = "network" THEN ContentsThrown(ErrFetchFailed)
    ELSE IF ~(resp.status \in 200..299) THEN ContentsNull
    ELSE IF resp.fail = "body" THEN ContentsThrown(ErrBadJson)
    ELSE IF resp.array THEN ContentsItems(resp.items) ELSE ContentsNull

fetchFolderContents(resp) ==
    IF resp.fail = "network" THEN ContentsThrown(ErrFetchFailed)
    ELSE IF resp.status = 403
    THEN ContentsThrown(MessageOrDefault(IF resp.fail = "body" THEN NULL ELSE resp.message))
    ELSE IF ~(resp.status \in 200..299) THEN ContentsNull
    ELSE IF resp.fail = "body" THEN ContentsThrown(ErrBadJson)
    ELSE IF resp.array THEN ContentsItems(resp.items) ELSE ContentsNull

\* fetchFileContent: the text, or null on any failure
fetchFileContent(downloadUrl, outcome) ==
    IF outcome = "ok" THEN Content(downloadUrl) ELSE NULL

\* the map callback without its null test: a failed download leaves a record
\* with null content
FileResultPlaceholder(entry, outcome) ==
    IF ~Truthy(entry.download_url) THEN <<>>
    ELSE << [path |-> OrEmpty(entry.path), name |-> OrEmpty(entry.name),
             content |-> fetchFileContent(entry.download_url, outcome)] >>

\* one element of fileResults: no element (null) or one record
FileResult(entry, outcome) ==
    IF ~Truthy(entry.download_url) THEN <<>>
    ELSE LET content == fetchFileContent(entry.download_url, outcome)
         IN  IF content = NULL THEN <<>>
             ELSE << [path |-> OrEmpty(entry.path), name |-> OrEmpty(entry.name),
                      content |-> content] >>

RECURSIVE Flatten(_)
\* fileResults.filter((f) => f !== null)
Flatten(slots) ==
    IF Len(slots) = 0 THEN <<>> ELSE Head(slots) \o Flatten(Tail(slots))

Top(g, i) == g.tasks[i].stack[Len(g.tasks[i].stack)]

\* the records held by the frames of a collection
RECURSIVE HeldFiles(_)
HeldFiles(stack) ==
    IF Len(stack) = 0 THEN 0 ELSE Len(Head(stack).files) + HeldFiles(Tail(stack))

RECURSIVE LoopDirsAtOnce(_, _, _)
\* the loop over dirEntries asking for every remaining subdirectory at once
\* instead of one after another
LoopDirsAtOnce(g, i, j) ==
    LET stack == g.tasks[i].stack
        n == Len(stack)
        top == stack[n]
        rest == {k \in j..Len(top.dirEntries) : Truthy(top.dirEntries[k].path)}
    IN  IF j > Len(top.dirEntries)
        THEN IF n = 1
             THEN Return(g, i, top.files, NULL)
             ELSE LET caller == [stack[n - 1] EXCEPT !.files = @ \o top.files]
                  IN  LoopDirsAtOnce([g EXCEPT !.tasks[i].stack =
                                        Append(SubSeq(stack, 1, n - 2), caller)],
                                     i, caller.di + 1)
        ELSE IF ~Truthy(top.dirEntries[j].path)
        THEN LoopDirsAtOnce(g, i, j + 1)
        ELSE CallFetchFolderContents(
                [g EXCEPT !.tasks[i].stack[n].di = j,
                          !.tasks[i].net.list = @ + Cardinality(rest) - 1],
                i, top.dirEntries[j].path, "sub")

RECURSIVE LoopDirs(_, _, _)
\* collectFiles from the j-th round of its loop over dirEntries, up to the next
\* await; when the loop ends the frame returns its files to its caller
LoopDirs(g, i, j) ==
    LET stack == g.tasks[i].stack
        n == Len(stack)
        top == stack[n]
    IN  IF j > Len(top.dirEntries)
        THEN IF n = 1
             THEN Return(g, i, top.files, NULL)
             ELSE LET caller == [stack[n - 1] EXCEPT !.files = @ \o top.files]
                  IN  LoopDirs([g EXCEPT !.tasks[i].stack =
                                    Append(SubSeq(stack, 1, n - 2), caller)],
                               i, caller.di + 1)
        ELSE IF ~Truthy(top.dirEntries[j].path)
        THEN LoopDirs(g, i, j + 1)
        ELSE CallFetchFolderContents(
                [g EXCEPT !.tasks[i].stack[n].di = j], i, top.dirEntries[j].path, "sub")

\* collectFiles after Promise.all: the records are pushed, the loop begins
AfterDownloads(g, i) ==
    LET n == Len(g.tasks[i].stack)
        top == g.tasks[i].stack[n]
    IN  LoopDirs([g EXCEPT !.tasks[i].stack[n].files = @ \o Flatten(top.fileResults)], i, 1)

\* collectFiles that leaves the subdirectories alone: the files of the one
\* directory only
CollectFilesShallow(g, i, items) ==
    LET fileEntries == SelectIdx(items, {k \in 1..Len(items) : items[k].type = "file"}, 1)
        issued == {k \in 1..Len(fileEntries) : Truthy(fileEntries[k].download_url)}
        frame == [ files |-> <<>>, fileEntries |-> fileEntries,
                   fileResults |-> [k \in 1..Len(fileEntries) |-> <<>>],
                   pending |-> issued, dirEntries |-> <<>>, di |-> 0 ]
        g1 == [g EXCEPT !.tasks[i].stack = Append(@, frame),
                        !.tasks[i].pc = "dl",
                        !.tasks[i].net.dl = @ + Cardinality(issued),
                        !.tasks[i].dls = @ \cup
                            {<<OrEmpty(fileEntries[k].path), "nourl">> :
                                k \in (1..Len(fileEntries)) \ issued}]
    IN  IF issued = {} THEN AfterDownloads(g1, i) ELSE g1

\* collectFiles(source, items) up to its first await: every download is issued
CollectFiles(g, i, items) ==
    LET fileEntries == SelectIdx(items, {k \in 1..Len(items) : items[k].type = "file"}, 1)
        dirEntries == SelectIdx(items, {k \in 1..Len(items) : items[k].type = "dir"}, 1)
        issued == {k \in 1..Len(fileEntries) : Truthy(fileEntries[k].download_url)}
        frame == [ files |-> <<>>, fileEntries |-> fileEntries,
                   fileResults |-> [k \in 1..Len(fileEntries) |-> <<>>],
                   pending |-> issued, dirEntries |-> dirEntries, di |-> 0 ]
        g1 == [g EXCEPT !.tasks[i].stack = Append(@, frame),
                        !.tasks[i].pc = "dl",
                        !.tasks[i].net.dl = @ + Cardinality(issued),
                        !.tasks[i].dls = @ \cup
                            {<<OrEmpty(fileEntries[k].path), "nourl">> :
                                k \in (1..Len(fileEntries)) \ issued}]
    IN  IF issued = {} THEN AfterDownloads(g1, i) ELSE g1

\* fetchSkillDetails after findSkillFolder
AfterFind(g, i, out) ==
    IF out.thrown THEN Throw(g, i, out.message)
    ELSE LET m == out.match
             g1 == [g EXCEPT !.tasks[i].tier = m.tier,
                             !.tasks[i].match = <<m>>]
         IN  IF FindFailed(variant, m)
             THEN Return(g1, i, <<>>, IF m.error = NULL THEN ErrNotFound ELSE m.error)
             ELSE CallFetchFolderContents(g1, i, m.folderPath, "list")

\* fetchSkillDetails after the listing of the resolved folder
AfterList(g, i, out) ==
    IF out.thrown THEN Throw(g, i, out.message)
    ELSE IF out.null THEN Return(g, i, <<>>, ErrNoContents)
    ELSE CollectFiles(g, i, out.items)

\* the catch of fetchSkillDetails returning, with the error, the records the
\* resolved folder had already pushed
AfterSubListPartial(g, i, out) ==
    IF out.thrown
    THEN Return(g, i, g.tasks[i].stack[1].files, out.message)
    ELSE IF out.null
    THEN LoopDirs([g EXCEPT !.tasks[i].subs = @ \cup {<<g.tasks[i].listing, "null">>}],
                  i, Top(g, i).di + 1)
    ELSE CollectFiles([g EXCEPT !.tasks[i].subs = @ \cup {<<g.tasks[i].listing, "items">>}],
                      i, out.items)

\* collectFiles giving up on a subdirectory that cannot be listed: a null
\* listing ends the collection like the one of the resolved folder
AfterSubListStrict(g, i, out) ==
    IF out.thrown
    THEN Return([g EXCEPT !.tasks[i].lost = HeldFiles(g.tasks[i].stack)],
                i, <<>>, out.message)
    ELSE IF out.null
    THEN Return([g EXCEPT !.tasks[i].subs = @ \cup {<<g.tasks[i].listing, "null">>}],
                i, <<>>, ErrNoContents)
    ELSE CollectFiles([g EXCEPT !.tasks[i].subs = @ \cup {<<g.tasks[i].listing, "items">>}],
                      i, out.items)

\* collectFiles after the listing of a subdirectory; what fetchFolderContents
\* throws is caught by fetchSkillDetails
AfterSubList(g, i, out) ==
    IF out.thrown
    THEN Return([g EXCEPT !.tasks[i].lost = HeldFiles(g.tasks[i].stack)],
                i, <<>>, out.message)
    ELSE IF out.null
    THEN LoopDirs([g EXCEPT !.tasks[i].subs = @ \cup {<<g.tasks[i].listing, "null">>}],
                  i, Top(g, i).di + 1)
    ELSE CollectFiles([g EXCEPT !.tasks[i].subs = @ \cup {<<g.tasks[i].listing, "items">>}],
                      i, out.items)

\* the records kept in the order in which the downloads settle instead of the
\* order of the file entries
AfterDownloadPush(g, i, k, outcome) ==
    LET n == Len(g.tasks[i].stack)
        top == g.tasks[i].stack[n]
        entry == top.fileEntries[k]
        issued == {j \in 1..Len(top.fileEntries) : Truthy(top.fileEntries[j].download_url)}
        slot == Cardinality(issued) - Cardinality(top.pending) + 1
        g1 == [g EXCEPT !.tasks[i].stack[n].fileResults[slot] = FileResult(entry, outcome),
                        !.tasks[i].stack[n].pending = @ \ {k},
                        !.tasks[i].dls = @ \cup {<<OrEmpty(entry.path), outcome>>},
                        !.tasks[i].order = Append(@, OrEmpty(entry.path))]
    IN  IF top.pending = {k} THEN AfterDownloads(g1, i) ELSE g1

\* collectFiles going on as soon as one download settles, the others in flight
AfterDownloadEager(g, i, k, outcome) ==
    LET n == Len(g.tasks[i].stack)
        top == g.tasks[i].stack[n]
        entry == top.fileEntries[k]
        g1 == [g EXCEPT !.tasks[i].stack[n].fileResults[k] = FileResult(entry, outcome),
                        !.tasks[i].stack[n].pending = @ \ {k},
                        !.tasks[i].dls = @ \cup {<<OrEmpty(entry.path), outcome>>},
                        !.tasks[i].order = Append(@, OrEmpty(entry.path))]
    IN  AfterDownloads(g1, i)

\* one download of the top frame settles
AfterDownload(g, i, k, outcome) ==
    LET n == Len(g.tasks[i].stack)
        top == g.tasks[i].stack[n]
        entry == top.fileEntries[k]
        g1 == [g EXCEPT !.tasks[i].stack[n].fileResults[k] = FileResult(entry, outcome),
                        !.tasks[i].stack[n].pending = @ \ {k},
                        !.tasks[i].dls = @ \cup {<<OrEmpty(entry.path), outcome>>},
                        !.tasks[i].order = Append(@, OrEmpty(entry.path))]
    IN  IF top.pending = {k} THEN AfterDownloads(g1, i) ELSE g1

----------------------------------------------------------------------------
(* The get-skill-details handler *)

NoResponse == [kind |-> "none", skills |-> <<>>, message |-> NULL]

\* the handler's catch: error(...) in index.ts, isError in stdio.mjs
HandlerError(v, message) ==
    IF v = "http" THEN <<"Failed to fetch skill details: ">> \o message
    ELSE <<"Error: ">> \o message

\* Promise.all over the tasks: rejected by the first rejection, fulfilled with
\* every result, in input order, once every task is fulfilled
PromiseAll(v, at, ts) ==
    IF at # "awaiting" THEN [hpc |-> at, response |-> response]
    ELSE IF \E i \in DOMAIN ts : ts[i].pc = "thrown"
    THEN LET i == CHOOSE i \in DOMAIN ts : ts[i].pc = "thrown"
         IN  [hpc |-> "returned",
              response |-> [kind |-> "error", skills |-> <<>>,
                            message |-> HandlerError(v, ts[i].thrown)]]
    ELSE IF \A i \in DOMAIN ts : ts[i].pc = "done"
    THEN [hpc |-> "returned",
          response |-> [kind |-> "ok", skills |-> [i \in DOMAIN ts |-> ts[i].result],
                        message |-> NULL]]
    ELSE [hpc |-> at, response |-> response]

\* the state after a continuation ran; at is the handler's position before
\* the task's promise settled
Apply(g, at) ==
    LET h == PromiseAll(variant, at, g.tasks)
    IN  /\ tasks' = g.tasks
        /\ tokenIndex' = g.idx
        /\ authLog' = g.log
        /\ completed' = g.completed
        /\ progress' = g.progress
        /\ hpc' = h.hpc
        /\ response' = h.response
        /\ UNCHANGED <<variant, githubTokens, skill_ids, rTree, rSkillId, rOut>>

RECURSIVE MapSkills(_, _)
\* skill_ids.map(...): every fetchSkillDetails runs to its first await, in order
MapSkills(g, i) ==
    IF i > Len(g.tasks) THEN g ELSE MapSkills(StartSkill(g, i), i + 1)

\* a response that is not a success is noted in the task's events
Note(g, i, kind, resp) ==
    LET what == IF resp.fail = "network" THEN "network"
                ELSE IF resp.status = 403 THEN "403"
                ELSE IF ~(resp.status \in 200..299) THEN "status"
                ELSE IF resp.fail = "body" THEN "body"
                ELSE IF kind # "tree" /\ ~resp.array THEN "notarray"
                ELSE "ok"
        g1 == IF kind = "tree" THEN [g EXCEPT !.tasks[i].treeAns = <<resp>>]
              ELSE [g EXCEPT !.tasks[i].net.ans = @ + 1]
    IN  IF what = "ok" THEN g1
        ELSE [g1 EXCEPT !.tasks[i].events = @ \cup {<<kind, what>>}]

----------------------------------------------------------------------------
(* Actions *)

\* the handler is called: index.ts reports progress 0 and awaits it, stdio.mjs
\* starts every fetchSkillDetails
HandlerStart ==
    /\ hpc = "idle"
    /\ IF variant = "http"
       THEN /\ hpc' = "report0"
            /\ progress' = Append(progress, 0)
            /\ UNCHANGED <<variant, githubTokens, tokenIndex, authLog, skill_ids,
                           tasks, completed, response, rTree, rSkillId, rOut>>
       ELSE Apply(MapSkills(Ctx, 1), "awaiting")

\* index.ts: the first progress report settles and every fetchSkillDetails starts
ProgressStarted ==
    /\ hpc = "report0"
    /\ Apply(MapSkills(Ctx, 1), "awaiting")

\* the Trees API answers task i
TreeResponse(i) ==
    /\ tasks[i].pc = "tree"
    /\ \E resp \in TreeResponses(tasks[i].source) :
       \E out \in findSkillFolder(variant, resp, tasks[i].skillName) :
          Apply(AfterFind(Note(Ctx, i, "tree", resp), i, out), hpc)

\* the Contents API answers the listing of the resolved folder of task i
ListResponse(i) ==
    /\ tasks[i].pc = "list"
    /\ \E resp \in ListResponses(tasks[i].source, tasks[i].listing) :
          Apply(AfterList(Note(Ctx, i, "list", resp), i, fetchFolderContents(resp)), hpc)

\* one download of the directory task i is collecting settles
DownloadSettled(i) ==
    /\ tasks[i].pc = "dl"
    /\ \E k \in Top(Ctx, i).pending : \E outcome \in DownloadOutcomes :
          Apply(AfterDownload(Ctx, i, k, outcome), hpc)

\* the Contents API answers the listing of a subdirectory of task i
SubdirResponse(i) ==
    /\ tasks[i].pc = "sub"
    /\ \E resp \in ListResponses(tasks[i].source, tasks[i].listing) :
          LET g == Note(Ctx, i, "sub", resp)
              g1 == IF resp.fail # "network" /\ resp.status = 403
                    THEN [g EXCEPT !.tasks[i].sub403 =
                            Append(@, IF resp.fail = "body" THEN NULL ELSE resp.message)]
                    ELSE g
          IN  Apply(AfterSubList(g1, i, fetchFolderContents(resp)), hpc)

\* index.ts: the progress report of task i settles and its wrapper returns the result
ReportSettled(i) ==
    /\ tasks[i].pc = "report"
    /\ Apply([Ctx EXCEPT !.tasks[i].pc = "done"], hpc)

Next ==
    \/ HandlerStart
    \/ ProgressStarted
    \/ \E i \in DOMAIN tasks : TreeResponse(i)
    \/ \E i \in DOMAIN tasks : ListResponse(i)
    \/ \E i \in DOMAIN tasks : DownloadSettled(i)
    \/ \E i \in DOMAIN tasks : SubdirResponse(i)
    \/ \E i \in DOMAIN tasks : ReportSettled(i)

\* a credential
Token(k) == <<"ghp_">> \o Digits(k)

\* the identifiers of the batches of several skills, and those fetched alone
BatchIds == { id_x, id_two }
SingleIds == { id_e2e, id_pdf, id_ab, id_one, id_four, <<>> }

Batches ==
    (UNION {[1..n -> BatchIds] : n \in 1..MaxBatch})
        \cup {<<id>> : id \in SingleIds}

Init ==
    /\ variant \in {"http", "stdio"}
    /\ githubTokens \in {[k \in 1..m |-> Token(k)] : m \in 0..MaxTokens}
    /\ tokenIndex = 0
    /\ authLog = <<>>
    /\ skill_ids \in Batches
    /\ hpc = "idle"
    /\ tasks = [i \in 1..Len(skill_ids) |-> NewTask(skill_ids[i])]
    /\ completed = 0
    /\ progress = <<>>
    /\ response = NoResponse
    /\ rTree = <<>>
    /\ rSkillId = <<>>
    /\ rOut = NoMatch

Spec == Init /\ [][Next]_vars

\* every outbound request eventually settles and every continuation that can
\* run eventually runs: while a step of some task or of the handler is
\* possible, a step is eventually taken (every step completes a request, and
\* no task can take more than finitely many)
Fairness == WF_vars(Next)

SpecLive == Spec /\ Fairness

----------------------------------------------------------------------------
(* The resolver alone: findSkillFolder applied to an enumerated tree listing *)

ResolveStep ==
    /\ ~rOut.done
    /\ \E m \in ResolveTree(variant, rTree, rSkillId) :
          rOut' = [done |-> TRUE, folderPath |-> m.folderPath,
                   error |-> m.error, tier |-> m.tier]
    /\ UNCHANGED <<variant, rTree, rSkillId>>
    /\ UNCHANGED orchVars

NextResolve == ResolveStep

InitResolve ==
    /\ variant \in {"http", "stdio"}
    /\ githubTokens = <<>>
    /\ tokenIndex = 0
    /\ authLog = <<>>
    /\ skill_ids = <<>>
    /\ hpc = "off"
    /\ tasks = <<>>
    /\ completed = 0
    /\ progress = <<>>
    /\ response = NoResponse
    /\ \/ rTree \in TreeListings /\ rSkillId \in SkillIdPool
       \/ rTree \in ManifestListings /\ rSkillId \in ManifestIdPool
    /\ rOut = NoMatch

SpecResolve == InitResolve /\ [][NextResolve]_vars

----------------------------------------------------------------------------
(* Properties *)

\* the number of '/'-separated segments of a composite identifier
Segments(id) == Cardinality({k \in 1..Len(id) : id[k] = "/"}) + 1

Finished(t) == t.pc \in {"report", "done"}
Settled(t) == t.pc \in {"report", "done", "thrown"}

Requests(t) == t.net.tree + t.net.list + t.net.dl

RECURSIVE SumHdr(_, _)
SumHdr(ts, i) == IF i > Len(ts) THEN 0 ELSE ts[i].net.hdr + SumHdr(ts, i + 1)

PathsOf(files) == [k \in 1..Len(files) |-> files[k].path]

\* C1: fetchSkillDetails never throws: whatever the Trees API, the listing of
\* the resolved folder and the listings of the subdirectories answer, the
\* call returns a result and no exception reaches the batch caller.
C1_NeverThrows ==
    /\ \A i \in DOMAIN tasks : tasks[i].pc # "thrown"
    /\ response.kind # "error"

\* C2: the handler returns one result per requested identifier, in input
\* order, and never a whole-batch failure.
C2_OneResultPerId ==
    hpc = "returned" =>
        /\ response.kind = "ok"
        /\ Len(response.skills) = Len(skill_ids)
        /\ \A i \in 1..Len(skill_ids) : response.skills[i].id = skill_ids[i]

\* C3: an identifier of fewer than 3 segments gets a result with a non-null
\* error and no files as soon as it is started; the call issues no request and
\* does not consult the credential rotator, so that alone it leaves the
\* cursor where it was.
C3_MalformedNoNetwork ==
    \A i \in DOMAIN tasks :
        (Segments(tasks[i].id) < 3 /\ tasks[i].pc # "new") =>
            /\ Finished(tasks[i])
            /\ tasks[i].result.id = tasks[i].id
            /\ tasks[i].result.error # NULL
            /\ tasks[i].result.files = <<>>
            /\ Requests(tasks[i]) = 0
            /\ tasks[i].net.hdr = 0
            /\ (Len(tasks) = 1 => tokenIndex = 0 /\ authLog = <<>>)

\* a malformed identifier was answered in a batch whose other identifier
\* issued requests and moved the cursor
C3_Witness ==
    \E i \in DOMAIN tasks : \E j \in DOMAIN tasks :
        /\ Segments(tasks[i].id) < 3
        /\ tasks[i].pc = "done"
        /\ tasks[j].net.hdr > 0
        /\ tokenIndex > 0

\* C4: with a pool of M > 0 credentials the k-th call of getGitHubHeaders,
\* counted over all tasks, returns credential (k-1) mod M and the cursor
\* equals the number of calls made, so any M consecutive calls use every
\* credential once; with an empty pool no call carries an Authorization and
\* the cursor stays 0.
C4_RoundRobin ==
    LET M == Len(githubTokens)
        n == Len(authLog)
    IN  /\ n = SumHdr(tasks, 1)
        /\ IF M > 0
           THEN /\ tokenIndex = n
                /\ \A k \in 1..n : authLog[k] = Bearer(githubTokens[((k - 1) % M) + 1])
                /\ \A k \in 1..(n - M + 1) :
                      Cardinality({authLog[j] : j \in k..(k + M - 1)}) = M
           ELSE /\ tokenIndex = 0
                /\ \A k \in 1..n : authLog[k] = NoAuth

\* two tasks of one batch took credentials from a pool of two in turn, and
\* the cursor wrapped
C4_Witness ==
    /\ Len(githubTokens) = 2
    /\ Len(authLog) >= 3
    /\ \E i \in DOMAIN tasks : \E j \in DOMAIN tasks :
          i # j /\ tasks[i].net.hdr >= 1 /\ tasks[j].net.hdr >= 1

\* C5: once the listing of a subdirectory answers 403 the skill is over: its
\* result has no files and its error is the message of the response body, or
\* the default rate-limit text when the body has none.
C5_Subdir403Aborts ==
    \A i \in DOMAIN tasks :
        Len(tasks[i].sub403) > 0 =>
            /\ Finished(tasks[i])
            /\ tasks[i].result.files = <<>>
            /\ tasks[i].result.error # NULL
            /\ tasks[i].result.error =
                  (IF tasks[i].sub403[1] = NULL THEN ErrRateLimit ELSE tasks[i].sub403[1])

\* a 403 on a subdirectory ended a collection that already held records
C5_Witness ==
    \E i \in DOMAIN tasks :
        /\ Len(tasks[i].sub403) > 0
        /\ tasks[i].lost > 0
        /\ Finished(tasks[i])

\* the listing of some subdirectory threw (403, network error, unreadable body)
SubThrew(t) ==
    \E e \in t.events : e[1] = "sub" /\ e[2] \in {"403", "network", "body"}

\* C6: the files of a result are exactly the file entries whose download
\* succeeded, one record each, with the downloaded text; an entry without
\* download_url or with a failed download leaves no record, and a collection
\* in which only downloads fail neither throws nor ends with an error.
C6_BestEffortDownloads ==
    \A i \in DOMAIN tasks :
        LET t == tasks[i]
            files == t.result.files
        IN  /\ (t.dls # {} /\ ~SubThrew(t)) =>
                  /\ t.pc # "thrown"
                  /\ (Finished(t) => t.result.error = NULL)
            /\ (Finished(t) /\ t.result.error = NULL) =>
                  /\ \A k \in 1..Len(files) :
                        /\ <<files[k].path, "ok">> \in t.dls
                        /\ files[k].content = Content(files[k].path)
                        /\ \A j \in 1..Len(files) : files[j].path = files[k].path => j = k
                  /\ \A d \in t.dls :
                        (d[2] = "ok") <=> (\E k \in 1..Len(files) : files[k].path = d[1])

\* a skill returned without error from a folder of three file entries: one
\* without download_url, one whose download failed, one downloaded
C6_Witness ==
    \E i \in DOMAIN tasks :
        /\ tasks[i].pc = "done"
        /\ tasks[i].result.error = NULL
        /\ <<p_pdf_LICENSE, "nourl">> \in tasks[i].dls
        /\ <<p_pdf_notes, "network">> \in tasks[i].dls
        /\ <<p_pdf_SKILL, "ok">> \in tasks[i].dls
        /\ Len(tasks[i].result.files) >= 1

\* C7: every request (tree listing, contents listing, download) consults the
\* credential rotator: a task has issued as many requests as it has made
\* calls of getGitHubHeaders.
C7_EveryRequestRotates ==
    \A i \in DOMAIN tasks : Requests(tasks[i]) = tasks[i].net.hdr

\* the tree has a directory whose path is the skill identifier
HasExactDir(tree, skillId) ==
    \E k \in 1..Len(tree) : tree[k].type = "tree" /\ tree[k].path = skillId

\* C8: when the tree has a directory whose path equals the skill identifier,
\* the resolver returns that path and no error, whatever else the tree holds.
C8_ExactDirWins ==
    (rOut.done /\ HasExactDir(rTree, rSkillId)) =>
        /\ rOut.folderPath = rSkillId
        /\ rOut.error = NULL

\* the exact directory was returned from a tree that also holds a deeper
\* directory of the same name and a manifest
C8_Witness ==
    /\ rOut.done
    /\ rSkillId = s_pdf
    /\ HasExactDir(rTree, rSkillId)
    /\ \E k \in 1..Len(rTree) : rTree[k] = Entry(s_x_pdf, "tree")
    /\ \E k \in 1..Len(rTree) : rTree[k] = Entry(s_x_SKILL_md, "blob")
    /\ rOut.folderPath = s_pdf

\* the blobs of a tree whose file name is SKILL.md
ManifestsOf(tree) ==
    {k \in 1..Len(tree) :
        /\ tree[k].type = "blob"
        /\ LET parts == Split(tree[k].path, "/") IN parts[Len(parts)] = s_SKILL_md}

\* the directory a path lies in ("" at the root)
DirOf(path) ==
    LET parts == Split(path, "/") IN Join(SubSeq(parts, 1, Len(parts) - 1), "/")

\* C9: when the tree holds exactly one SKILL.md, the resolver returns the
\* directory of that manifest and no error.
C9_SingleManifest ==
    (rOut.done /\ Cardinality(ManifestsOf(rTree)) = 1) =>
        \A k \in ManifestsOf(rTree) :
            /\ rOut.folderPath = DirOf(rTree[k].path)
            /\ rOut.error = NULL

\* every request of the task was answered with success
AllSucceeded(t) == t.events = {} /\ \A d \in t.dls : d[2] = "ok"

\* C10: for "acme/skills-repo/code-review" and a tree of
\* tools/code-review/SKILL.md and tools/code-review/checklist.md, with every
\* request succeeding, the result has error null and exactly those two files
\* with their contents, the folder being resolved by tier 3.
C10_EndToEnd ==
    \A i \in DOMAIN tasks :
        LET t == tasks[i]
        IN  (t.id = id_e2e /\ Settled(t) /\ AllSucceeded(t)) =>
                /\ Finished(t)
                /\ t.result.error = NULL
                /\ Len(t.result.files) = 2
                /\ Range(PathsOf(t.result.files)) = {p_cr_SKILL, p_cr_checklist}
                /\ \A k \in 1..2 : t.result.files[k].content = Content(t.result.files[k].path)
                /\ t.tier = 3

\* C11: with the manifests of the folders "weather-widgets" and "weather" and
\* the skill identifier "weather", fuzzy disambiguation selects "weather",
\* whichever manifest the tree lists first
C11_WeatherWins ==
    ( /\ variant = "stdio"
      /\ rOut.done
      /\ rSkillId = s_weather
      /\ Len(rTree) = 2
      /\ Range(rTree) = { Entry(s_weather_SKILL_md, "blob"),
                          Entry(s_widgets_SKILL_md, "blob") } )
    => /\ rOut.folderPath = s_weather
       /\ rOut.error = NULL

\* the candidates tier 4 scores for a tree and a skill identifier
ScoredFolders(tree, skillId) ==
    LET entries == SkillMdEntries(tree)
    IN  [k \in 1..Len(entries) |-> Candidate(ParentFolder(entries[k].path), skillId)]

Below(score) == ~score.nan /\ ~ScoreGE(score, Threshold)

\* the FolderMatch of task t came from the fuzzy tier
Fuzzy(t) == Len(t.match) = 1 /\ t.match[1].tier = 4

\* C12: the fuzzy tier returns a folder only if that folder scores at least
\* 0.30; when the best candidate scores below 0.30 the FolderMatch has a null
\* path and an error naming a candidate of maximal score and its rounded
\* percentage, the result carries that error with no files, and neither a
\* contents nor a download request is issued for the skill.
C12_FuzzyThreshold ==
    \A i \in 1..Len(tasks) :
        Fuzzy(tasks[i]) =>
            LET t == tasks[i]
                m == t.match[1]
                cands == ScoredFolders(t.treeAns[1].tree, t.skillName)
                all == 1..Len(cands)
            IN  /\ m.folderPath # NULL =>
                      /\ m.error = NULL
                      /\ \E k \in all : /\ cands[k].folderPath = m.folderPath
                                        /\ ScoreGE(cands[k].score, Threshold)
                /\ (\A k \in all : Below(cands[k].score)) =>
                      /\ m.folderPath = NULL
                      /\ \E k \in all :
                            /\ \A j \in all : ScoreGE(cands[k].score, cands[j].score)
                            /\ m.error = ErrBelow(cands[k].folderName, Percent(cands[k].score))
                      /\ t.net.list = 0
                      /\ t.net.dl = 0
                      /\ Finished(t)
                      /\ t.result.files = <<>>
                      /\ t.result.error = m.error

\* a skill refused at 25%: b-c-d-e shares one token of four with a-b
C12_Witness ==
    \E i \in 1..Len(tasks) :
        /\ Fuzzy(tasks[i])
        /\ Finished(tasks[i])
        /\ tasks[i].result.error =
              ErrBelow(<<"b", "-", "c", "-", "d", "-", "e">>, <<"2", "5">>)
        /\ tasks[i].net.list = 0

\* C13 as stated: every result either has files and a null error, or an error
\* and no files; none has an empty file list together with a null error.
C13_PopulatedOrError ==
    \A i \in 1..Len(tasks) :
        Finished(tasks[i]) =>
            \/ tasks[i].result.files # <<>> /\ tasks[i].result.error = NULL
            \/ tasks[i].result.files = <<>> /\ tasks[i].result.error # NULL

\* C13: a result with a non-null error has an empty file list; a result with
\* a null error has an empty file list exactly when no download of the skill
\* succeeded (the folder is empty, or its entries have no download URL, or
\* their downloads failed).
C13_ErrorMeansNoFiles ==
    \A i \in 1..Len(tasks) :
        Finished(tasks[i]) =>
            LET r == tasks[i].result
            IN  /\ r.error # NULL => r.files = <<>>
                /\ r.error = NULL =>
                      (r.files = <<>> <=> ~\E d \in tasks[i].dls : d[2] = "ok")

\* a skill whose only download failed: no files and no error
C13_Witness ==
    \E i \in 1..Len(tasks) :
        /\ Finished(tasks[i])
        /\ tasks[i].result.error = NULL
        /\ tasks[i].result.files = <<>>
        /\ \E d \in tasks[i].dls : d[2] \in {"status", "network"}

\* C14: every FolderMatch findSkillFolder returns has exactly one of its two
\* fields populated (a path, possibly "" for the repository root, with a null
\* error; or a null path with a non-null error), and when the path is ""
\* fetchSkillDetails goes on to list the repository root instead of returning
\* a failure.
C14_ExactlyOnePopulated ==
    \A i \in 1..Len(tasks) :
        Len(tasks[i].match) = 1 =>
            LET t == tasks[i]
                m == t.match[1]
            IN  /\ \/ m.folderPath # NULL /\ m.error = NULL
                   \/ m.folderPath = NULL /\ m.error # NULL
                /\ m.folderPath = <<>> =>
                      /\ t.net.list >= 1
                      /\ Finished(t) => t.result.error \notin {ErrNotFound, ErrNotFoundInRepo}

\* a repository whose only manifest is at its root: the root was listed and
\* its SKILL.md returned
C14_Witness ==
    \E i \in 1..Len(tasks) :
        /\ Len(tasks[i].match) = 1
        /\ tasks[i].match[1].folderPath = <<>>
        /\ tasks[i].match[1].error = NULL
        /\ Finished(tasks[i])
        /\ tasks[i].result.error = NULL
        /\ PathsOf(tasks[i].result.files) = <<s_SKILL_md>>

C16_SameResolution ==
    \A i \in 1..Len(tasks) :
        Len(tasks[i].match) = 1 /\ tasks[i].match[1].tier # 0 =>
            LET t == tasks[i]
                m == t.match[1]
                other == IF variant = "http" THEN "stdio" ELSE "http"
            IN  \E m2 \in ResolveTree(other, t.treeAns[1].tree, t.skillName) :
                    /\ m2.folderPath = m.folderPath
                    /\ m2.error = m.error
                    /\ FindFailed(other, m2) = FindFailed(variant, m)

\* the error findSkillFolder derives from a 403: the message of the body, or
\* the default text when the body has none or does not parse
Tree403Error(resp) ==
    IF resp.fail = "body" \/ resp.message = NULL
    THEN <<"GitHub rate limit exceeded">>
    ELSE resp.message

\* C17: a tree listing answered with HTTP 403 or with another non-success
\* status does not make findSkillFolder throw: the FolderMatch has a null path
\* and, for 403, the message of the response body (the default rate-limit
\* text when the body has none), otherwise the status-code error; the skill's
\* result carries that error with an empty file list, and no contents or
\* download request is issued for the skill.
C17_TreeStatusErrors ==
    \A i \in 1..Len(tasks) :
        LET t == tasks[i] IN
        ( /\ Len(t.treeAns) = 1
          /\ t.treeAns[1].fail # "network"
          /\ ~(t.treeAns[1].status \in 200..299) )
        => LET resp == t.treeAns[1]
               expected == IF resp.status = 403 THEN Tree403Error(resp)
                           ELSE <<"GitHub Trees API returned ">> \o Digits(resp.status)
           IN  /\ t.pc # "thrown"
               /\ Len(t.match) = 1
               /\ t.match[1].folderPath = NULL
               /\ t.match[1].error = expected
               /\ Finished(t)
               /\ t.result.error = expected
               /\ t.result.files = <<>>
               /\ t.net.list = 0
               /\ t.net.dl = 0

\* a batch in which one tree listing was answered 403 with a message, another
\* 404, and both skills returned their error
C17_Witness ==
    \E i \in 1..Len(tasks) : \E j \in 1..Len(tasks) :
        /\ Finished(tasks[i])
        /\ Len(tasks[i].treeAns) = 1
        /\ tasks[i].treeAns[1].status = 403
        /\ tasks[i].result.error = RateLimitBody
        /\ Finished(tasks[j])
        /\ Len(tasks[j].treeAns) = 1
        /\ tasks[j].treeAns[1].status = 404
        /\ tasks[j].result.error # NULL

\* the positions of the listing that tier 1 may consider for skillId
Qualifying(tree, skillId) ==
    {k \in 1..Len(tree) :
        /\ tree[k].type = "tree"
        /\ \/ tree[k].path = skillId
           \/ /\ Len(tree[k].path) > Len(skillId)
              /\ tree[k].path[Len(tree[k].path) - Len(skillId)] = "/"
              /\ \A n \in 1..Len(skillId) :
                    tree[k].path[Len(tree[k].path) - Len(skillId) + n] = skillId[n]}

\* C18: tier 1 answers only from entries of kind tree whose path equals
\* skillId or ends with "/" + skillId; it returns one of minimal length, and
\* of several of minimal length the one listed first.
C18_FirstShortest ==
    rOut.done =>
        LET q == Qualifying(rTree, rSkillId)
        IN  /\ q = {} => ~(rOut.tier = 1 /\ rOut.folderPath # NULL)
            /\ q # {} =>
                  /\ rOut.tier = 1
                  /\ rOut.error = NULL
                  /\ \E k \in q :
                        /\ rOut.folderPath = rTree[k].path
                        /\ \A j \in q : Len(rTree[k].path) <= Len(rTree[j].path)
                        /\ \A j \in q : j < k => Len(rTree[j].path) > Len(rTree[k].path)

\* y/pdf listed before x/pdf, equally long and no shorter candidate: y/pdf is
\* returned
C18_Witness ==
    /\ rOut.done
    /\ rSkillId = s_pdf
    /\ \E j, k \in 1..Len(rTree) :
          /\ j < k
          /\ rTree[j] = Entry(s_y_pdf, "tree")
          /\ rTree[k] = Entry(s_x_pdf, "tree")
    /\ \A k \in 1..Len(rTree) : rTree[k].path # s_pdf
    /\ rOut.folderPath = s_y_pdf

\* the parent directories of the blobs tier 2 matched
MatchedParents(tree) ==
    {ParentFolder(e.path) : e \in Range(SkillMdEntries(tree))}

\* C19: when all the manifest matches of tier 2 lie in one and the same parent
\* directory, however many blobs matched, resolution returns that directory
\* and never a below-threshold error.
C19_DistinctParentShortcut ==
    ( /\ variant = "stdio"
      /\ rOut.done
      /\ Qualifying(rTree, rSkillId) = {}
      /\ Cardinality(MatchedParents(rTree)) = 1 )
    => /\ rOut.error = NULL
       /\ rOut.folderPath \in MatchedParents(rTree)

\* the file name of a path: its final segment
FileName(path) == LET parts == Split(path, "/") IN parts[Len(parts)]

\* the blobs whose file name is SKILL.md, compared case-insensitively
NamedSkillMd(tree) ==
    {k \in 1..Len(tree) :
        /\ tree[k].type = "blob"
        /\ LowerCase(FileName(tree[k].path)) = <<"s", "k", "i", "l", "l", ".", "m", "d">>}

\* C20: a blob is a manifest of tier 2 if and only if its file name is
\* SKILL.md, compared case-insensitively: when tier 1 found nothing, the
\* resolution reports that there is no manifest exactly when no blob has that
\* file name, and a folder it returns is the parent of a blob that has it; a
\* blob such as z/myskill.md contributes no candidate.
C20_ManifestByFileName ==
    ( /\ variant = "stdio"
      /\ rOut.done
      /\ Qualifying(rTree, rSkillId) = {} )
    => LET named == NamedSkillMd(rTree)
       IN  /\ (rOut.error = ErrNoManifest) <=> (named = {})
           /\ rOut.folderPath # NULL =>
                 \E k \in named : rOut.folderPath = ParentFolder(rTree[k].path)

\* a candidate whose score no candidate exceeds
Maximal(cands, k) == \A j \in 1..Len(cands) : ScoreGE(cands[k].score, cands[j].score)

\* C21: in the fuzzy tier every candidate's score is the number
\* |F \cap S| / max(|F|, |S|), F and S being the '-'-separated tokens of the
\* folder's final segment and of skillId, plus 0.5 capped at 1 when one of the
\* two strings contains the other; it is a number of [0, 1] for every
\* candidate and every skillId, and the candidate returned, or named in the
\* error, has maximal score.
C21_ScoreFormula ==
    (variant = "stdio" /\ rOut.done /\ rOut.tier = 4) =>
        LET cands == ScoredFolders(rTree, rSkillId)
            all == 1..Len(cands)
            S == Tokens(rSkillId)
        IN  /\ \A k \in all :
                  LET name == FolderName(cands[k].folderPath)
                      F == Tokens(name)
                      common == Cardinality(F \cap S)
                      most == Max(Cardinality(F), Cardinality(S))
                      bonus == Includes(rSkillId, name) \/ Includes(name, rSkillId)
                      num == IF ~bonus THEN 2 * common
                             ELSE IF 2 * common + most >= 2 * most THEN 2 * most
                             ELSE 2 * common + most
                      sc == cands[k].score
                  IN  /\ ~sc.nan
                      /\ most > 0
                      /\ sc.num * 2 * most = num * sc.den
                      /\ 0 <= sc.num /\ sc.num <= sc.den
            /\ \E k \in all :
                  /\ Maximal(cands, k)
                  /\ \/ rOut.error = NULL /\ rOut.folderPath = cands[k].folderPath
                     \/ /\ rOut.folderPath = NULL
                        /\ rOut.error = ErrBelow(cands[k].folderName, Percent(cands[k].score))

\* the subdirectories of task t whose listing came back null
Nulled(t) == {s[1] : s \in {x \in t.subs : x[2] = "null"}}

RECURSIVE Downloadable(_, _, _)
RECURSIVE DownloadableIn(_, _, _, _)
\* the file entries with a download URL of the subtree that begins with the
\* listing items, directory by directory: the files of the listing in listing
\* order, then the subtree of each of its directories in listing order;
\* a directory of skip has no listing
Downloadable(source, items, skip) ==
    LET files == SelectIdx(items, {k \in 1..Len(items) :
                                      /\ items[k].type = "file"
                                      /\ Truthy(items[k].download_url)}, 1)
        dirs == SelectIdx(items, {k \in 1..Len(items) :
                                      /\ items[k].type = "dir"
                                      /\ Truthy(items[k].path)
                                      /\ items[k].path \notin skip}, 1)
    IN  files \o DownloadableIn(source, dirs, skip, 1)

DownloadableIn(source, dirs, skip, j) ==
    IF j > Len(dirs) THEN <<>>
    ELSE Downloadable(source, FolderItems(source, dirs[j].path), skip)
            \o DownloadableIn(source, dirs, skip, j + 1)

\* the subtree beneath the folder task t resolved, without the directories
\* whose listing came back null
SubtreeOf(t) ==
    Downloadable(t.source, FolderItems(t.source, t.match[1].folderPath), Nulled(t))

\* task t returned what it collected
Collected(t) == Finished(t) /\ t.result.error = NULL /\ Len(t.match) = 1

\* C22: on success the files of a result are the files of the whole subtree
\* beneath the resolved folder: every file entry whose download succeeded, in
\* the listing of the resolved folder or of a directory reached from it
\* through entries of type dir, at any depth, was requested and appears
\* exactly once with its path, name and content, and no other record appears.
C22_WholeSubtree ==
    \A i \in 1..Len(tasks) :
        Collected(tasks[i]) =>
            LET t == tasks[i]
                files == t.result.files
                entries == SubtreeOf(t)
            IN  /\ \A e \in Range(entries) :
                      \E o \in DownloadOutcomes : <<e.path, o>> \in t.dls
                /\ \A e \in Range(entries) :
                      LET at == {k \in 1..Len(files) : files[k].path = e.path}
                      IN  IF <<e.path, "ok">> \in t.dls
                          THEN /\ Cardinality(at) = 1
                               /\ \A k \in at : /\ files[k].name = e.name
                                                /\ files[k].content = Content(e.download_url)
                          ELSE at = {}
                /\ \A k \in 1..Len(files) :
                      \E e \in Range(entries) : e.path = files[k].path

\* o/r/pdf collected down to pdf/refs/deep: five files from four directories
C22_Witness ==
    \E i \in 1..Len(tasks) :
        /\ Collected(tasks[i])
        /\ Range(PathsOf(tasks[i].result.files)) =
              {p_pdf_SKILL, p_pdf_notes, p_pdf_refs_a, p_pdf_refs_deep_b, p_pdf_bin_run}
        /\ Len(tasks[i].result.files) = 5

\* the downloads of task t that are in flight, frame by frame
InFlight(t) == [n \in 1..Len(t.stack) |-> t.stack[n].pending]

\* the downloads of task t that have settled
SettledDownloads(t) == {d \in t.dls : d[2] \in DownloadOutcomes}

\* C23: within one directory every download is issued before any is awaited,
\* and the collector goes on (lists a subdirectory, or returns the records)
\* only when all of them have settled: while a download is in flight the task
\* waits for downloads, every file entry of the directory with a download URL
\* is in flight or settled, the directory has pushed no record yet, and no
\* listing request is in flight.
C23_DownloadsJoined ==
    \A i \in 1..Len(tasks) :
        LET t == tasks[i]
            n == Len(t.stack)
        IN  /\ t.pc \in {"tree", "list", "sub"} =>
                  \A m \in 1..n : t.stack[m].pending = {}
            /\ t.pc = "dl" =>
                  /\ t.stack[n].pending # {}
                  /\ t.stack[n].files = <<>>
                  /\ \A k \in 1..Len(t.stack[n].fileEntries) :
                        Truthy(t.stack[n].fileEntries[k].download_url) =>
                            \/ k \in t.stack[n].pending
                            \/ \E d \in SettledDownloads(t) :
                                  d[1] = OrEmpty(t.stack[n].fileEntries[k].path)
                  /\ t.net.dl = Cardinality(SettledDownloads(t))
                                    + Cardinality(t.stack[n].pending)
            /\ t.net.dl = Len(t.order)
                  + Cardinality(UNION {t.stack[m].pending : m \in 1..n})

\* the two downloads of o/r/pdf, issued together, have both settled and the
\* listing of its first subdirectory is in flight
C23_Witness ==
    \E i \in 1..Len(tasks) :
        /\ tasks[i].pc = "sub"
        /\ tasks[i].listing = p_pdf_refs
        /\ tasks[i].net.dl = 2
        /\ Len(tasks[i].order) = 2

\* a listing of a subdirectory of task t threw
SubAborted(t) ==
    \E e \in t.events : e[1] = "sub" /\ e[2] \in {"403", "network", "body"}

\* p lies beneath the directory d
Beneath(p, d) ==
    /\ Len(p) > Len(d)
    /\ SubSeq(p, 1, Len(d)) = d
    /\ p[Len(d) + 1] = "/"

\* the directories with a path in the listing of the folder that holds d
Siblings(source, d) ==
    LET items == FolderItems(source, ParentFolder(d))
    IN  {items[k].path : k \in {j \in 1..Len(items) :
                                  items[j].type = "dir" /\ Truthy(items[j].path)}}

\* C24: a subdirectory whose listing is answered with a non-success status
\* other than 403, or with a body that is not an array, is an empty subtree:
\* nothing beneath it is requested or returned, the other subdirectories of
\* its parent are still listed, and unless another listing throws the skill
\* is returned with error null.
C24_NullSubtreeIsEmpty ==
    \A i \in 1..Len(tasks) :
        LET t == tasks[i] IN
        \A d \in Nulled(t) :
            /\ \A x \in t.dls : ~Beneath(x[1], d)
            /\ \A s \in t.subs : ~Beneath(s[1], d)
            /\ \A k \in 1..Len(t.result.files) : ~Beneath(t.result.files[k].path, d)
            /\ ~SubAborted(t) =>
                  /\ t.pc # "thrown"
                  /\ Finished(t) =>
                        /\ t.result.error = NULL
                        /\ \A s \in Siblings(t.source, d) :
                              \E o \in {"null", "items"} : <<s, o>> \in t.subs

\* pdf/refs answered 404; pdf/bin was listed after it and its file returned,
\* with error null
C24_Witness ==
    \E i \in 1..Len(tasks) :
        /\ Collected(tasks[i])
        /\ <<"sub", "status">> \in tasks[i].events
        /\ <<p_pdf_refs, "null">> \in tasks[i].subs
        /\ <<p_pdf_bin, "items">> \in tasks[i].subs
        /\ \E k \in 1..Len(tasks[i].result.files) :
              tasks[i].result.files[k].path = p_pdf_bin_run

\* C25: when every outbound request eventually settles, every
\* fetchSkillDetails call of the batch eventually returns a result.
C25_EventuallyReturns == <>(\A i \in 1..Len(tasks) : Finished(tasks[i]))

\* C26: no result carries both a non-null error and a non-empty file list:
\* a malformed identifier, a failed resolution, a top-level listing that is
\* unavailable and an exception during the collection each return the error
\* with an empty file list.
C26_ErrorExcludesFiles ==
    \A i \in 1..Len(tasks) :
        Finished(tasks[i]) =>
            LET t == tasks[i]
                r == t.result
                failed == \/ Segments(t.id) < 3
                          \/ Len(t.match) = 1 /\ t.match[1].folderPath = NULL
                          \/ \E e \in t.events : e[1] = "list"
                          \/ SubAborted(t)
            IN  /\ failed <=> r.error # NULL
                /\ failed => r.files = <<>>
                /\ Len(r.files) > 0 => r.error = NULL

\* a collection aborted by a 403 after records had been collected: the result
\* has the error and none of them
C26_Witness ==
    \E i \in 1..Len(tasks) :
        /\ Finished(tasks[i])
        /\ tasks[i].lost > 0
        /\ tasks[i].result.error # NULL
        /\ tasks[i].result.files = <<>>

\* the position of path p in the sequence of paths s (0 when absent)
IndexOf(s, p) == IF \E k \in 1..Len(s) : s[k] = p
                 THEN CHOOSE k \in 1..Len(s) : s[k] = p
                 ELSE 0

\* C27: the order of the records of a result is the order of the listings,
\* whatever the order in which the downloads settled: the downloaded files of
\* a directory in listing order, then those of each of its subdirectories in
\* listing order, recursively.
C27_ListingOrder ==
    \A i \in 1..Len(tasks) :
        Collected(tasks[i]) =>
            LET t == tasks[i]
                Ok(e) == <<e.path, "ok">> \in t.dls
            IN  PathsOf(t.result.files) = PathsOf(SelectSeq(SubtreeOf(t), Ok))

\* pdf/notes.md was downloaded before pdf/SKILL.md and is returned after it
C27_Witness ==
    \E i \in 1..Len(tasks) :
        /\ Collected(tasks[i])
        /\ IndexOf(tasks[i].order, p_pdf_notes) > 0
        /\ IndexOf(tasks[i].order, p_pdf_notes) < IndexOf(tasks[i].order, p_pdf_SKILL)
        /\ IndexOf(PathsOf(tasks[i].result.files), p_pdf_SKILL) > 0
        /\ IndexOf(PathsOf(tasks[i].result.files), p_pdf_SKILL)
              < IndexOf(PathsOf(tasks[i].result.files), p_pdf_notes)

\* C28: for one skill identifier the directories are listed and collected one
\* after another: at most one contents request is in flight, it is in flight
\* exactly while the task waits for a listing, no download is in flight
\* then, and the downloads in flight at any moment are those of one directory,
\* the one being collected.
C28_OneDirectoryAtATime ==
    \A i \in 1..Len(tasks) :
        LET t == tasks[i]
            n == Len(t.stack)
            inFlight == InFlight(t)
            listings == t.net.list - t.net.ans
        IN  /\ listings \in {0, 1}
            /\ listings = 1 <=> t.pc \in {"list", "sub"}
            /\ listings = 1 => \A m \in 1..n : inFlight[m] = {}
            /\ \A m \in 1..n : inFlight[m] # {} => m = n /\ t.pc = "dl"

\* the listing of pdf/refs/deep is in flight, alone, after two directories
\* were collected one after the other
C28_Witness ==
    \E i \in 1..Len(tasks) :
        /\ tasks[i].pc = "sub"
        /\ tasks[i].listing = p_pdf_refs_deep
        /\ tasks[i].net.list - tasks[i].net.ans = 1
        /\ tasks[i].net.list = 3
        /\ Len(tasks[i].stack) = 2

\* C29: in index.ts the progress reports of a call are 0, then one report per
\* skill whose fetchSkillDetails returned, with the counts 1, 2, ... in that
\* order, none skipped or repeated, whatever the interleaving of the skill
\* fetches; the count never exceeds the number of requested identifiers.
C29_ProgressCounts ==
    variant = "http" =>
        LET returned == {i \in 1..Len(tasks) : Finished(tasks[i])}
        IN  /\ hpc = "idle" => progress = <<>>
            /\ hpc # "idle" =>
                  /\ Len(progress) = Cardinality(returned) + 1
                  /\ \A k \in 1..Len(progress) : progress[k] = k - 1
            /\ completed = Cardinality(returned)
            /\ completed <= Len(skill_ids)

\* a batch of two whose second skill returned first: the reports are 0, 1, 2
C29_Witness ==
    /\ variant = "http"
    /\ skill_ids = <<id_x, id_two>>
    /\ \A i \in 1..Len(tasks) : tasks[i].pc = "done"
    /\ progress = <<0, 1, 2>>

\* C30: when the fuzzy tier is reached with a manifest at the repository root
\* and skillId has a non-empty token, the resolution succeeds: the root
\* candidate's empty folder name is a substring of skillId and scores 0.5, so
\* the below-threshold error cannot be returned, whatever the other folders.
C30_RootAlwaysPasses ==
    ( /\ variant = "stdio"
      /\ rOut.done
      /\ rOut.tier = 4
      /\ <<>> \in MatchedParents(rTree)
      /\ Tokens(rSkillId) # {} )
    => /\ rOut.error = NULL
       /\ rOut.folderPath # NULL
       /\ \A k \in 1..Len(ScoredFolders(rTree, rSkillId)) :
             LET c == ScoredFolders(rTree, rSkillId)[k]
             IN  c.folderPath = <<>> =>
                    /\ ~c.score.nan
                    /\ 2 * c.score.num = c.score.den

\* skillId weather, manifests at the root and in q, a folder unrelated to
\* weather: the root is returned
C30_Witness ==
    /\ variant = "stdio"
    /\ rOut.done
    /\ rOut.tier = 4
    /\ rSkillId = s_weather
    /\ Range(rTree) = {Entry(s_SKILL_md, "blob"), Entry(s_q_SKILL_md, "blob")}
    /\ rOut.folderPath = <<>>
    /\ rOut.error = NULL

====
